---- MODULE Spec2Model ----
(***************************************************************************)
(* Model of the Streamlit order-entry application (src/app.py and its      *)
(* second variant src/app3.py).  Every step of the model is one run of the *)
(* script main(): Streamlit re-executes the whole script on each user      *)
(* interaction, and st.rerun() queues one further run of the same page.    *)
(*                                                                         *)
(* TLA+ strings are ASCII, so the Chinese column names and client names    *)
(* of the source are written as follows:                                   *)
(*   "client" = kehu mingcheng (customer name column)                      *)
(*   "qty"    = shuliang (quantity column)                                 *)
(*   "date"   = daohuo riqi (arrival date column)                          *)
(*   "planner_tag" = tijiaoren (submitter column of the summary)           *)
(*   "ClientA".."ClientC" = the three entries of CLIENT_OPTIONS            *)
(* A DataFrame is [columns: sequence of names, rows: sequence of records]; *)
(* the position in rows is the (ignore_index) integer index.               *)
(***************************************************************************)
EXTENDS Integers, Sequences, FiniteSets, TLC

\* ---------------------------------------------------------------- bounds
\* Rows held in all tables, pending entries and pending plans together.
MaxRows == 2
\* Largest total quantity and largest split size typed into the split form.
MaxTotal == 3
MaxSize == 2

\* ------------------------------------------------------- program constants
\* The planners modelled: the first two of the three PILL_OPTIONS.  The
\* third planner behaves as one of these that is never selected.
PILL_OPTIONS == <<"Xiaofeng Hou", "Becky Chen">>
CLIENT_OPTIONS == <<"ClientA", "ClientB", "ClientC">>
REQUIRED_COLUMNS == <<"client", "CAD", "qty", "date">>
EXPORT_TEMPLATE_COLUMNS ==
    <<"Creation Date", "Sourcing", "IO", "CAD", "Qty", "client", "Request Date">>

\* Python None / pandas NaN in a quantity cell.
NoneQty == -1
\* pandas NaT in a date cell, and Python None in one.
NaT == "NaT"
NoDate == "None"
\* A date cell of an uploaded file that pd.to_datetime cannot parse.
Unparseable == "n/a"
\* datetime.today().date() and datetime.now(): the day of the session; a
\* date value is written date(...), the text strftime makes of it is not.
Today == "date(2026-11-02)"
Tomorrow == "date(2026-11-03)"
\* pandas NaN in a cell of the export template.
NaN == "NaN"

Planners == {PILL_OPTIONS[i] : i \in 1..Len(PILL_OPTIONS)}
Range(s) == {s[i] : i \in 1..Len(s)}

\* ------------------------------------------------------------ input sets
ClientInputs == {"", CLIENT_OPTIONS[1]}
CadInputs == {"", " ", "C1"}
QtyInputs == {0, 2}
DateInputs == {Tomorrow}
\* Values a cell of the split editor can be set to (a cleared cell is None).
EditorQty == {NoneQty, 2}
EditorDate == {NoDate}

\* ------------------------------------------------------- pandas operators
DataFrame(columns, rows) == [columns |-> columns, rows |-> rows]
\* pd.DataFrame() of an empty list: no columns, no rows.
NoFrame == DataFrame(<<>>, <<>>)
\* df.empty: any axis of length 0.
IsEmpty(df) == Len(df.columns) = 0 \/ Len(df.rows) = 0

\* pd.concat([a, b], ignore_index=True) for frames whose columns agree or
\* one of which has no columns at all.
\* Faulty variant: the new rows are put in front of the old ones.
ConcatInFront(a, b) ==
    DataFrame(IF Len(a.columns) = 0 THEN b.columns ELSE a.columns,
              b.rows \o a.rows)
Concat(a, b) ==
    DataFrame(IF Len(a.columns) = 0 THEN b.columns ELSE a.columns,
              a.rows \o b.rows)

\* datetime/Timestamp .strftime('%Y-%m-%d') on one cell; NaT gives NaN.
strftime(d) ==
    CASE d = Today -> "2026-11-02"
      [] d = Tomorrow -> "2026-11-03"
      [] OTHER -> NaN

\* pd.to_datetime(value, errors='coerce') on one cell: a date stays that
\* date, a text in date format is parsed, anything else becomes NaT.
to_datetime(v) ==
    CASE v \in {Today, Tomorrow} -> v
      [] v = "2026-11-02" -> Today
      [] v = "2026-11-03" -> Tomorrow
      [] OTHER -> NaT

\* Series.isnull() on one date cell.
isnull(v) == v \in {NaT, NoDate, NaN}

\* str.strip() is empty: the text is blank.
IsBlank(s) == s \in {"", " "}

SetCol(row, c, v) == [x \in (DOMAIN row) \cup {c} |-> IF x = c THEN v ELSE row[x]]

\* ------------------------------------------------------------------ state
VARIABLES
    app,           \* which script runs: "app" (src/app.py) or "app3"
    file,          \* st.session_state[f"file_{planner}"]
    batch,         \* st.session_state[f"batch_{planner}"]
    split_temp,    \* st.session_state[f"split_temp_{planner}"]
    submitted,     \* st.session_state[f"submitted_{planner}"]
    show_success,  \* st.session_state[f"show_success_{planner}"]
    client_select, \* widget client_select_{planner} of the page on screen
    edited_df,     \* what st.data_editor returns on the page on screen
    split_total,   \* widget split_total_{planner} of the page on screen
    run,           \* the last script run: page, planner, whether st.rerun() is queued
    out            \* what the last run rendered: message, tables

vars == <<app, file, batch, split_temp, submitted, show_success,
          client_select, edited_df, split_total, run, out>>

\* st.session_state[f"split_temp_{planner}"] = None
None == [is_none |-> TRUE, df |-> NoFrame]
Some(df) == [is_none |-> FALSE, df |-> df]

Rendered(msg, total_df, export_df) ==
    [msg |-> msg, total_df |-> total_df, export_df |-> export_df]
Quiet == Rendered("", NoFrame, NoFrame)
Message(msg) == Rendered(msg, NoFrame, NoFrame)

Run(page, planner, rerun) ==
    [page |-> page, planner |-> planner, rerun |-> rerun]

\* Rows in use after a step, for the bound MaxRows.
RECURSIVE SumRows(_, _, _, _, _)
SumRows(ps, f, b, t, s) ==
    IF ps = {} THEN 0
    ELSE LET p == CHOOSE x \in ps : TRUE
         IN Len(f[p].rows) + Len(b[p].entries) + Len(t[p].df.rows)
            + Len(s[p].rows) + SumRows(ps \ {p}, f, b, t, s)
RowsInUse == SumRows(Planners, file, batch, split_temp, submitted)

\* The total quantity input of the split form as first drawn.
DefaultTotal == 5000

\* ------------------------------------------------------------------- init
initialize_session_state ==
    /\ file = [p \in Planners |-> DataFrame(REQUIRED_COLUMNS, <<>>)]
    /\ batch = [p \in Planners |-> [selected_client |-> "", entries |-> <<>>]]
    /\ split_temp = [p \in Planners |-> None]
    /\ submitted = [p \in Planners |-> DataFrame(REQUIRED_COLUMNS, <<>>)]
    /\ show_success = [p \in Planners |-> FALSE]

\* The first run of main(): the sidebar radio shows its first page and the
\* planner radio its first option.
Init ==
    /\ app \in {"app", "app3"}
    /\ initialize_session_state
    /\ client_select = ""
    /\ edited_df = NoFrame
    /\ split_total = DefaultTotal
    /\ run = Run("entry", PILL_OPTIONS[1], FALSE)
    /\ out = Quiet

\* --------------------------------------------------------- session keys
\* The planner a session-state key f"..._{planner}" belongs to.
\* Faulty variant: one key for all planners.
session_key_shared(planner) == PILL_OPTIONS[1]
session_key(planner) == planner

OnPage(page, planner) ==
    /\ ~run.rerun
    /\ run.page = page
    /\ run.planner = planner

\* ----------------------------------------------------------- file upload
\* The files a planner may pick.  A file is the table pd.read_csv or
\* pd.read_excel makes of it, or unreadable.  Its columns are any of the
\* required ones and a further one, in an order of the file's own.
FileColumnOrder == <<"note", "date", "qty", "CAD", "client">>
RawCell(c, k) ==
    CASE c = "client" -> IF k = 1 THEN CLIENT_OPTIONS[1] ELSE ""
      [] c = "CAD" -> IF k = 1 THEN "C1" ELSE " "
      [] c = "qty" -> IF k = 1 THEN 2 ELSE NoneQty
      [] c = "date" -> IF k = 1 THEN "2026-11-03" ELSE Unparseable
      [] OTHER -> IF k = 1 THEN "n1" ELSE "n2"
RawRow(cols, k) == [c \in cols |-> RawCell(c, k)]
ReadFrame(cols, rows) ==
    DataFrame(SelectSeq(FileColumnOrder, LAMBDA c : c \in cols), rows)
FileColumnSets ==
    {Range(FileColumnOrder), Range(REQUIRED_COLUMNS),
     Range(FileColumnOrder) \ {"CAD"}, {"CAD", "qty"}, {}}
UploadedFiles ==
    {[readable |-> FALSE, df |-> NoFrame]}
    \cup {[readable |-> TRUE, df |-> ReadFrame(cols, <<RawRow(cols, 1)>>)] :
              cols \in FileColumnSets}
    \cup {[readable |-> TRUE, df |-> ReadFrame(cols, <<RawRow(cols, 2)>>)] :
              cols \in {Range(FileColumnOrder), Range(REQUIRED_COLUMNS)}}
    \cup {[readable |-> TRUE, df |-> ReadFrame(cols, <<>>)] :
              cols \in {Range(FileColumnOrder), Range(REQUIRED_COLUMNS)}}

convert_date_column(df) ==
    IF "date" \in Range(df.columns)
    THEN DataFrame(df.columns,
                   [i \in 1..Len(df.rows) |->
                       [df.rows[i] EXCEPT !["date"] = to_datetime(@)]])
    ELSE df

\* df[columns]
Project(df, columns) ==
    DataFrame(columns,
              [i \in 1..Len(df.rows) |-> [c \in Range(columns) |-> df.rows[i][c]]])

MissingCols(df) == SelectSeq(REQUIRED_COLUMNS, LAMBDA c : c \notin Range(df.columns))

\* The body of handle_file_upload for an uploaded file f: the new stored
\* table and the message shown.
\* Faulty variant: the table is stored with all the columns of the file.
StoreUploadAllColumns(stored, f) ==
    IF ~f.readable
    THEN [file |-> stored, msg |-> "file_error"]
    ELSE LET df == convert_date_column(f.df)
         IN IF MissingCols(df) # <<>>
            THEN [file |-> stored, msg |-> "missing_columns"]
            ELSE [file |-> df, msg |-> "upload_ok"]
StoreUpload(stored, f) ==
    IF ~f.readable
    THEN [file |-> stored, msg |-> "file_error"]
    ELSE LET df == convert_date_column(f.df)
         IN IF MissingCols(df) # <<>>
            THEN [file |-> stored, msg |-> "missing_columns"]
            ELSE [file |-> Project(df, REQUIRED_COLUMNS), msg |-> "upload_ok"]

\* handle_file_upload with file f in the uploader.
upload_file(planner, f) ==
    /\ OnPage("entry", planner)
    /\ LET r == StoreUpload(file[session_key(planner)], f)
       IN /\ file' = [file EXCEPT ![session_key(planner)] = r.file]
          /\ out' = Message(r.msg)
    /\ run' = Run("entry", planner, FALSE)
    /\ UNCHANGED <<app, batch, split_temp, submitted, show_success,
                   client_select, edited_df, split_total>>
    /\ RowsInUse' <= MaxRows

handle_file_upload(planner) == \E f \in UploadedFiles : upload_file(planner, f)

\* ------------------------------------------------------------ batch input
\* validate_batch: the first failure in entry order, or valid.
EntryError(entry) ==
    IF IsBlank(entry.CAD) THEN "cad_empty"
    ELSE IF entry.qty = NoneQty \/ entry.qty < 0 THEN "qty_invalid"
    ELSE IF entry.date = NoDate THEN "date_missing"
    ELSE ""
validate_batch(b) ==
    IF b.selected_client = "" THEN [valid |-> FALSE, msg |-> "select_client", row |-> 0]
    ELSE LET bad == {i \in 1..Len(b.entries) : EntryError(b.entries[i]) # ""}
         IN IF bad = {} THEN [valid |-> TRUE, msg |-> "", row |-> 0]
            ELSE LET i == CHOOSE x \in bad : \A y \in bad : x <= y
                 IN [valid |-> FALSE, msg |-> EntryError(b.entries[i]), row |-> i]

\* The widgets of the input rows write their values back to the entries on
\* every run; the number input is given "value or 0".
render_entries(entries) ==
    [i \in 1..Len(entries) |->
        [entries[i] EXCEPT !.qty = IF @ = NoneQty \/ @ = 0 THEN 0 ELSE @]]

\* The rows a valid batch submit makes of the entries.
\* Faulty variant: the rows in reverse entry order.
new_data_reversed(client, entries) ==
    [i \in 1..Len(entries) |->
        [client |-> client, CAD |-> entries[Len(entries) + 1 - i].CAD,
         qty |-> entries[Len(entries) + 1 - i].qty,
         date |-> entries[Len(entries) + 1 - i].date]]
new_data(client, entries) ==
    [i \in 1..Len(entries) |->
        [client |-> client, CAD |-> entries[i].CAD,
         qty |-> entries[i].qty, date |-> entries[i].date]]

\* pd.DataFrame(list of dicts): no columns at all for an empty list.
FrameOfDicts(rows) ==
    IF rows = <<>> THEN NoFrame ELSE DataFrame(REQUIRED_COLUMNS, rows)

Remove(seq, i) == [j \in 1..(Len(seq) - 1) |-> IF j < i THEN seq[j] ELSE seq[j + 1]]

\* The client selectbox is changed.
select_client(planner) ==
    /\ OnPage("entry", planner)
    /\ \E client \in ClientInputs :
          /\ client # client_select
          /\ client_select' = client
          /\ batch' = [batch EXCEPT ![session_key(planner)] =
                          [selected_client |-> client,
                           entries |-> render_entries(@.entries)]]
    /\ run' = Run("entry", planner, FALSE)
    /\ out' = Quiet
    /\ UNCHANGED <<app, file, split_temp, submitted, show_success, edited_df, split_total>>

\* The add-row button.
add_row(planner) ==
    /\ OnPage("entry", planner)
    /\ batch' = [batch EXCEPT ![session_key(planner)] =
                    [selected_client |-> client_select,
                     entries |-> render_entries(
                         Append(@.entries,
                                [CAD |-> "", qty |-> NoneQty, date |-> Today]))]]
    /\ run' = Run("entry", planner, FALSE)
    /\ out' = Quiet
    /\ UNCHANGED <<app, file, split_temp, submitted, show_success,
                   client_select, edited_df, split_total>>
    /\ RowsInUse' <= MaxRows

\* One widget of one input row is changed.
edit_entry(planner) ==
    /\ OnPage("entry", planner)
    /\ \E i \in 1..Len(batch[session_key(planner)].entries) :
          LET old == batch[session_key(planner)].entries[i]
          IN \E e \in {[old EXCEPT !.CAD = v] : v \in CadInputs}
                     \cup {[old EXCEPT !.qty = v] : v \in QtyInputs} :
                /\ e # old
                /\ batch' = [batch EXCEPT ![session_key(planner)] =
                                [selected_client |-> client_select,
                                 entries |-> render_entries(
                                     [@.entries EXCEPT ![i] = e])]]
    /\ run' = Run("entry", planner, FALSE)
    /\ out' = Quiet
    /\ UNCHANGED <<app, file, split_temp, submitted, show_success,
                   client_select, edited_df, split_total>>

\* The delete button of one input row: entries.pop(i), st.rerun().
delete_row(planner) ==
    /\ OnPage("entry", planner)
    /\ \E i \in 1..Len(batch[session_key(planner)].entries) :
          batch' = [batch EXCEPT ![session_key(planner)] =
                       [selected_client |-> client_select,
                        entries |-> Remove(@.entries, i)]]
    /\ run' = Run("entry", planner, TRUE)
    /\ out' = Quiet
    /\ UNCHANGED <<app, file, split_temp, submitted, show_success,
                   client_select, edited_df, split_total>>

\* What the submit button does to the planner's submitted table and batch.
\* Faulty variant: no validation.
SubmitAlways(table, b, variant) ==
    [submitted |-> Concat(table, FrameOfDicts(new_data(b.selected_client, b.entries))),
     batch |-> [b EXCEPT !.entries = <<>>],
     msg |-> "submit_ok", rerun |-> TRUE]
SubmitBatch(table, b, variant) ==
    LET v == validate_batch(b)
    IN IF v.valid
       THEN [submitted |->
                 Concat(table, FrameOfDicts(new_data(b.selected_client, b.entries))),
             batch |-> IF variant = "app"
                       THEN [selected_client |-> "", entries |-> <<>>]
                       ELSE [b EXCEPT !.entries = <<>>],
             msg |-> "submit_ok", rerun |-> TRUE]
       ELSE [submitted |-> table, batch |-> b, msg |-> "submit_failed",
             rerun |-> FALSE]

\* The submit button.
submit_batch(planner) ==
    /\ OnPage("entry", planner)
    /\ LET b == [selected_client |-> client_select,
                 entries |-> render_entries(batch[session_key(planner)].entries)]
           r == SubmitBatch(submitted[session_key(planner)], b, app)
       IN /\ submitted' = [submitted EXCEPT ![session_key(planner)] = r.submitted]
          /\ batch' = [batch EXCEPT ![session_key(planner)] = r.batch]
          /\ run' = Run("entry", planner, r.rerun)
          /\ out' = Message(r.msg)
    /\ UNCHANGED <<app, file, split_temp, show_success, client_select, edited_df, split_total>>

\* -------------------------------------------------------- export template
Column(df, c) == [i \in 1..Len(df.rows) |-> df.rows[i][c]]

\* frame[c] = scalar: the scalar in every row the frame has.
SetScalar(frame, c, v) ==
    DataFrame(frame.columns,
              [i \in 1..Len(frame.rows) |-> SetCol(frame.rows[i], c, v)])

\* frame[c] = series.  A frame without rows takes the index of the series
\* and fills the columns it already has with NaN; otherwise the values are
\* aligned on the index and rows the series lacks get NaN.
SetSeries(frame, c, series) ==
    IF Len(frame.rows) = 0 /\ Len(series) > 0
    THEN DataFrame(frame.columns,
                   [i \in 1..Len(series) |->
                       [x \in Range(frame.columns) |->
                           IF x = c THEN series[i] ELSE NaN]])
    ELSE DataFrame(frame.columns,
                   [i \in 1..Len(frame.rows) |->
                       SetCol(frame.rows[i], c,
                              IF i <= Len(series) THEN series[i] ELSE NaN)])

\* Faulty variant: only the empty template.
convert_to_template_dropping_rows(df) ==
    DataFrame(EXPORT_TEMPLATE_COLUMNS, <<>>)
convert_to_template(df) ==
    LET t0 == DataFrame(EXPORT_TEMPLATE_COLUMNS, <<>>)
        t1 == SetScalar(t0, "Creation Date", strftime(Today))
        t2 == SetSeries(t1, "CAD", Column(df, "CAD"))
        t3 == SetSeries(t2, "Qty", Column(df, "qty"))
        t4 == SetSeries(t3, "client", Column(df, "client"))
        t5 == IF "date" \in Range(df.columns)
              THEN SetSeries(t4, "Request Date",
                             [i \in 1..Len(df.rows) |->
                                 strftime(to_datetime(df.rows[i].date))])
              ELSE t4
        t6 == SetScalar(t5, "Sourcing", "")
        t7 == SetScalar(t6, "IO", "")
    IN Project(IF IsEmpty(df) THEN t0 ELSE t7, EXPORT_TEMPLATE_COLUMNS)

\* ---------------------------------------------------------------- summary
\* combined["planner_tag"] = planner
Tagged(df, planner) ==
    DataFrame(Append(df.columns, "planner_tag"),
              [i \in 1..Len(df.rows) |-> SetCol(df.rows[i], "planner_tag", planner)])

DatesConverted(df) ==
    DataFrame(df.columns,
              [i \in 1..Len(df.rows) |->
                  [df.rows[i] EXCEPT !["date"] = to_datetime(@)]])

\* The frame one planner adds to all_dfs, NoFrame if it adds none.
\* Faulty variant: the file table is left out.
CombinedOfSubmittedOnly(planner, variant) ==
    LET submitted_df == IF variant = "app3"
                        THEN DatesConverted(submitted[session_key(planner)])
                        ELSE submitted[session_key(planner)]
    IN IF IsEmpty(submitted_df) THEN NoFrame ELSE Tagged(submitted_df, planner)
CombinedOf(planner, variant) ==
    LET file_df == IF variant = "app3"
                   THEN DatesConverted(file[session_key(planner)])
                   ELSE file[session_key(planner)]
        submitted_df == IF variant = "app3"
                        THEN DatesConverted(submitted[session_key(planner)])
                        ELSE submitted[session_key(planner)]
        combined == Concat(file_df, submitted_df)
    IN IF IsEmpty(combined) THEN NoFrame ELSE Tagged(combined, planner)

RECURSIVE ConcatAll(_, _, _)
ConcatAll(i, acc, variant) ==
    IF i > Len(PILL_OPTIONS) THEN acc
    ELSE ConcatAll(i + 1, Concat(acc, CombinedOf(PILL_OPTIONS[i], variant)), variant)

\* total_df of summary_page; NoFrame when all_dfs is empty and the page
\* ends with the warning.
total_df(variant) == ConcatAll(1, NoFrame, variant)

SummaryRendered(variant) ==
    IF IsEmpty(total_df(variant))
    THEN Message("no_data")
    ELSE Rendered("", total_df(variant), NoFrame)

\* -------------------------------------------------------------- history
\* show_history: the export offered under the planner's history, NoFrame
\* when the table is empty and the component ends with the notice.
show_history(planner) ==
    LET submitted_df == submitted[session_key(planner)]
        shown == DataFrame(submitted_df.columns,
                           [i \in 1..Len(submitted_df.rows) |->
                               [submitted_df.rows[i] EXCEPT
                                   !["date"] = strftime(to_datetime(@))]])
    IN IF IsEmpty(submitted_df)
       THEN Message("no_history")
       ELSE Rendered("", NoFrame, convert_to_template(shown))

\* ------------------------------------------------------------ split input
Sizes == 1..MaxSize
Totals == 1..MaxTotal
SplitCads == {" ", "C1"}
NoText == "None"

Repeat(n, row) == [i \in 1..n |-> row]

\* chunks rows of split_size, then the remainder if there is one.
\* Faulty variant: the remainder row is left out.
split_list_no_remainder(client, cad, total_qty, split_size, base_date) ==
    Repeat(total_qty \div split_size,
           [client |-> client, CAD |-> cad, qty |-> split_size, date |-> base_date])
\* Faulty variant: the remainder row is appended even when it is 0.
split_list_zero_remainder(client, cad, total_qty, split_size, base_date) ==
    LET row(q) == [client |-> client, CAD |-> cad, qty |-> q, date |-> base_date]
    IN Repeat(total_qty \div split_size, row(split_size))
       \o <<row(total_qty % split_size)>>
split_list(client, cad, total_qty, split_size, base_date) ==
    LET chunks == total_qty \div split_size
        remainder == total_qty % split_size
        row(q) == [client |-> client, CAD |-> cad, qty |-> q, date |-> base_date]
    IN Repeat(chunks, row(split_size))
       \o (IF remainder > 0 THEN <<row(remainder)>> ELSE <<>>)

\* The editor as it is drawn for the first time for the stored plan.
FreshEditor(temp) == IF temp.is_none THEN NoFrame ELSE temp.df

\* The form's submit button.
Generate(temp, client, cad, total_qty, split_size, base_date) ==
    IF client = "" THEN [temp |-> temp, msg |-> "select_client", rerun |-> FALSE]
    ELSE IF IsBlank(cad) THEN [temp |-> temp, msg |-> "cad_empty", rerun |-> FALSE]
    ELSE [temp |-> Some(DataFrame(REQUIRED_COLUMNS,
                                  split_list(client, cad, total_qty, split_size,
                                             base_date))),
          msg |-> "", rerun |-> TRUE]

\* The form is submitted with these values in its widgets.
submit_form(planner, client, cad, total_qty, split_size, base_date) ==
    /\ app = "app3"
    /\ OnPage("split", planner)
    /\ LET r == Generate(split_temp[session_key(planner)], client, cad,
                         total_qty, split_size, base_date)
       IN /\ split_temp' = [split_temp EXCEPT ![session_key(planner)] = r.temp]
          /\ run' = Run("split", planner, r.rerun)
          /\ out' = Message(r.msg)
          /\ edited_df' = FreshEditor(r.temp)
          /\ split_total' = total_qty
    /\ show_success' = [show_success EXCEPT ![session_key(planner)] = FALSE]
    /\ UNCHANGED <<app, file, batch, submitted, client_select>>
    /\ RowsInUse' <= MaxRows

generate_split(planner) ==
    \E client \in ClientInputs, cad \in SplitCads, total_qty \in Totals,
       split_size \in Sizes, base_date \in DateInputs :
       submit_form(planner, client, cad, total_qty, split_size, base_date)

\* The editor, its caption and the two buttons are on screen: the last run
\* was one of the split page that found a plan stored and was not ended by
\* the form's validation before it reached the editor.
PlanDisplayed(planner) ==
    /\ OnPage("split", planner)
    /\ ~split_temp[session_key(planner)].is_none
    /\ out.msg \notin {"select_client", "cad_empty"}

\* The caption's "original total quantity": the value of the form's total
\* quantity input in the run that draws the caption.
OriginalTotalShown == split_total

\* One cell of the editor is changed or cleared.
EditedCells(row) ==
    {[row EXCEPT !.qty = v] : v \in EditorQty}
    \cup {[row EXCEPT !.date = v] : v \in EditorDate}

edit_split(planner) ==
    /\ app = "app3"
    /\ PlanDisplayed(planner)
    /\ \E i \in 1..Len(edited_df.rows) :
          \E row \in EditedCells(edited_df.rows[i]) :
             /\ row # edited_df.rows[i]
             /\ edited_df' = [edited_df EXCEPT !.rows[i] = row]
    /\ show_success' = [show_success EXCEPT ![session_key(planner)] = FALSE]
    /\ run' = Run("split", planner, FALSE)
    /\ out' = show_history(planner)
    /\ UNCHANGED <<app, file, batch, split_temp, submitted, client_select,
                   split_total>>

\* The confirm button.
\* Faulty variant: the plan as generated is appended, not the edited rows.
ConfirmStored(table, temp, edited, flag) ==
    IF \E i \in 1..Len(edited.rows) : isnull(edited.rows[i].date)
    THEN [submitted |-> table, temp |-> temp, flag |-> flag,
          msg |-> "invalid_date", rerun |-> FALSE]
    ELSE [submitted |-> Concat(table, temp.df), temp |-> None, flag |-> TRUE,
          msg |-> "", rerun |-> TRUE]
Confirm(table, temp, edited, flag) ==
    IF \E i \in 1..Len(edited.rows) : isnull(edited.rows[i].date)
    THEN [submitted |-> table, temp |-> temp, flag |-> flag,
          msg |-> "invalid_date", rerun |-> FALSE]
    ELSE [submitted |-> Concat(table, edited), temp |-> None, flag |-> TRUE,
          msg |-> "", rerun |-> TRUE]

confirm_split(planner) ==
    /\ app = "app3"
    /\ PlanDisplayed(planner)
    /\ LET r == Confirm(submitted[session_key(planner)],
                        split_temp[session_key(planner)], edited_df, FALSE)
       IN /\ submitted' = [submitted EXCEPT ![session_key(planner)] = r.submitted]
          /\ split_temp' = [split_temp EXCEPT ![session_key(planner)] = r.temp]
          /\ show_success' = [show_success EXCEPT ![session_key(planner)] = r.flag]
          /\ run' = Run("split", planner, r.rerun)
          /\ out' = Message(r.msg)
    /\ UNCHANGED <<app, file, batch, client_select, edited_df, split_total>>

\* The cancel button.
\* Faulty variant: the plan stays pending.
CancelKeeps(temp) == temp
Cancel(temp) == None

cancel_split(planner) ==
    /\ app = "app3"
    /\ PlanDisplayed(planner)
    /\ split_temp' = [split_temp EXCEPT ![session_key(planner)] = Cancel(@)]
    /\ show_success' = [show_success EXCEPT ![session_key(planner)] = FALSE]
    /\ run' = Run("split", planner, TRUE)
    /\ out' = Quiet
    /\ UNCHANGED <<app, file, batch, submitted, client_select, edited_df, split_total>>

\* ----------------------------------------------------------- page draws
\* A run of the entry page with no button pressed.
DrawEntry(planner, client) ==
    /\ client_select' = client
    /\ batch' = [batch EXCEPT ![session_key(planner)] =
                    [selected_client |-> client,
                     entries |-> render_entries(@.entries)]]
    /\ edited_df' = NoFrame
    /\ split_total' = DefaultTotal
    /\ out' = Quiet
    /\ UNCHANGED <<app, file, split_temp, submitted, show_success>>

\* A run of the split page with no button pressed and a fresh editor.
DrawSplit(planner, total_qty) ==
    /\ show_success' = [show_success EXCEPT ![session_key(planner)] = FALSE]
    /\ split_total' = total_qty
    /\ edited_df' = FreshEditor(split_temp[session_key(planner)])
    /\ client_select' = ""
    /\ out' = show_history(planner)
    /\ UNCHANGED <<app, file, batch, split_temp, submitted>>

DrawSummary ==
    /\ client_select' = ""
    /\ edited_df' = NoFrame
    /\ split_total' = DefaultTotal
    /\ out' = SummaryRendered(app)
    /\ UNCHANGED <<app, file, batch, split_temp, submitted, show_success>>

\* The sidebar radio or the planner radio is changed: widgets that are no
\* longer drawn lose their state.
navigate ==
    /\ ~run.rerun
    /\ \/ \E p \in Planners :
             /\ ~(run.page = "entry" /\ run.planner = p)
             /\ DrawEntry(p, "")
             /\ run' = Run("entry", p, FALSE)
       \/ \E p \in Planners :
             /\ app = "app3"
             /\ ~(run.page = "split" /\ run.planner = p)
             /\ DrawSplit(p, DefaultTotal)
             /\ run' = Run("split", p, FALSE)
       \/ /\ run.page # "summary"
          /\ DrawSummary
          /\ run' = Run("summary", "", FALSE)

\* The run st.rerun() queued: the same page, no button pressed.
rerun ==
    /\ run.rerun
    /\ \/ /\ run.page = "entry"
          /\ DrawEntry(run.planner, client_select)
       \/ /\ run.page = "split"
          /\ DrawSplit(run.planner, split_total)
    /\ run' = Run(run.page, run.planner, FALSE)

\* The export button of the summary page.
export_summary ==
    /\ OnPage("summary", "")
    /\ ~IsEmpty(total_df(app))
    /\ \/ /\ app = "app3"
          /\ out' = Rendered("export", total_df(app), convert_to_template(total_df(app)))
       \/ /\ app = "app"
          /\ \/ out' = Rendered("export", total_df(app),
                                DataFrame(total_df(app).columns,
                                          [i \in 1..Len(total_df(app).rows) |->
                                              [total_df(app).rows[i] EXCEPT
                                                  !["date"] = strftime(@)]]))
             \/ out' = Rendered("export_failed", total_df(app), NoFrame)
    /\ run' = Run("summary", "", FALSE)
    /\ UNCHANGED <<app, file, batch, split_temp, submitted, show_success,
                   client_select, edited_df, split_total>>

Next ==
    \/ \E p \in Planners : handle_file_upload(p)
    \/ \E p \in Planners : select_client(p)
    \/ \E p \in Planners : add_row(p)
    \/ \E p \in Planners : edit_entry(p)
    \/ \E p \in Planners : delete_row(p)
    \/ \E p \in Planners : submit_batch(p)
    \/ \E p \in Planners : generate_split(p)
    \/ \E p \in Planners : edit_split(p)
    \/ \E p \in Planners : confirm_split(p)
    \/ \E p \in Planners : cancel_split(p)
    \/ navigate
    \/ rerun
    \/ export_summary

Spec == Init /\ [][Next]_vars

\* ================================================================ claims
\* C1: a form submitted with a client, a non-blank CAD, total >= 1 and
\* size >= 1 stores as the pending plan exactly total \div size rows of
\* quantity size, then one row of quantity total % size iff that is not 0.
C1_PlanIsChunksThenRemainder ==
    [][(run.page = "split" /\ ~run.rerun) =>
          \A client \in ClientInputs \ {""}, cad \in SplitCads \ {"", " "},
             size \in Sizes, date \in DateInputs :
             LET p == run.planner
                 total == split_total'
             IN submit_form(p, client, cad, total, size, date) =>
                   LET rows == split_temp'[p].df.rows
                       chunks == total \div size
                       rest == total % size
                   IN /\ ~split_temp'[p].is_none
                      /\ Len(rows) = chunks + (IF rest # 0 THEN 1 ELSE 0)
                      /\ \A i \in 1..chunks : rows[i].qty = size
                      /\ rest # 0 => rows[chunks + 1].qty = rest]_vars

\* A plan of one full chunk and a remainder has just been stored.
C1_Witness ==
    \E p \in Planners :
       /\ run.page = "split" /\ run.planner = p /\ run.rerun
       /\ split_total = 3
       /\ ~split_temp[p].is_none
       /\ Len(split_temp[p].df.rows) = 2
       /\ split_temp[p].df.rows[1].qty = 2
       /\ split_temp[p].df.rows[2].qty = 1

\* What the claims call a valid batch: a client is selected and every
\* entry has a non-blank CAD, a quantity >= 0 and an arrival date.
BatchIsValid(b) ==
    /\ b.selected_client # ""
    /\ \A i \in 1..Len(b.entries) :
          /\ b.entries[i].CAD \notin {"", " "}
          /\ b.entries[i].qty # NoneQty /\ b.entries[i].qty >= 0
          /\ b.entries[i].date \notin {NoDate, NaT}

\* C2: the submit button changes the submitted table only if the batch is
\* valid; if it is not, the submitted table and the pending entries stay
\* as they were and an error is shown.
C2_SubmitOnlyIfValid ==
    [][\A p \in Planners :
          submit_batch(p) =>
             /\ (submitted'[p] # submitted[p]) => BatchIsValid(batch[p])
             /\ ~BatchIsValid(batch[p]) =>
                    /\ submitted' = submitted
                    /\ batch'[p].entries = batch[p].entries
                    /\ out'.msg = "submit_failed"]_vars

\* A submit was refused for a CAD of blanks only, with a client selected.
C2_Witness ==
    \E p \in Planners :
       /\ out.msg = "submit_failed"
       /\ batch[p].selected_client # ""
       /\ Len(batch[p].entries) = 1
       /\ batch[p].entries[1].CAD = " "

\* C3: a valid submit appends one row per pending entry, in entry order,
\* with the selected client and the entry's CAD, quantity and date, keeps
\* the rows submitted before in place and leaves no pending entry.
C3_SubmitAppendsEntries ==
    [][\A p \in Planners :
          (submit_batch(p) /\ BatchIsValid(batch[p])) =>
             LET old == submitted[p].rows
                 new == submitted'[p].rows
                 es == batch[p].entries
             IN /\ Len(new) = Len(old) + Len(es)
                /\ \A i \in 1..Len(old) : new[i] = old[i]
                /\ \A j \in 1..Len(es) :
                      new[Len(old) + j] =
                         [client |-> batch[p].selected_client, CAD |-> es[j].CAD,
                          qty |-> es[j].qty, date |-> es[j].date]
                /\ submitted'[p].columns = REQUIRED_COLUMNS
                /\ batch'[p].entries = <<>>]_vars

\* Two entries that differ were submitted together.
C3_Witness ==
    \E p \in Planners :
       /\ out.msg = "submit_ok"
       /\ batch[p].entries = <<>>
       /\ Len(submitted[p].rows) = 2
       /\ submitted[p].rows[1].qty = 0
       /\ submitted[p].rows[2].qty = 2

HasRequired(f) == \A c \in Range(REQUIRED_COLUMNS) : c \in Range(f.df.columns)

\* C4: an upload whose table lacks one of the four required columns is
\* rejected with an error and leaves the stored file table as it was; the
\* stored table changes only on an upload that has all four, and is then
\* the uploaded rows under exactly the four required columns.
C4_UploadNeedsRequiredColumns ==
    [][\A p \in Planners, f \in UploadedFiles :
          upload_file(p, f) =>
             /\ (f.readable /\ ~HasRequired(f)) =>
                    (file' = file /\ out'.msg = "missing_columns")
             /\ (file'[p] # file[p]) => (f.readable /\ HasRequired(f))
             /\ (f.readable /\ HasRequired(f)) =>
                    /\ out'.msg = "upload_ok"
                    /\ file'[p].columns = REQUIRED_COLUMNS
                    /\ Len(file'[p].rows) = Len(f.df.rows)
                    /\ \A i \in 1..Len(f.df.rows) :
                          /\ DOMAIN file'[p].rows[i] = Range(REQUIRED_COLUMNS)
                          /\ \A c \in {"client", "CAD", "qty"} :
                                file'[p].rows[i][c] = f.df.rows[i][c]]_vars

\* A rejected upload after an accepted one: the stored row is still there.
C4_Witness ==
    \E p \in Planners :
       /\ out.msg = "missing_columns"
       /\ run.page = "entry" /\ run.planner = p
       /\ Len(file[p].rows) = 1

\* C5: rows of a split plan reach the submitted table only through the
\* confirm button: generating or regenerating a plan, editing it and
\* cancelling it leave the submitted table as it was, and cancelling
\* leaves no pending plan and no edited rows that could be confirmed.
C5_OnlyConfirmSubmitsPlan ==
    [][\A p \in Planners :
          /\ (generate_split(p) \/ edit_split(p) \/ cancel_split(p)) =>
                 submitted' = submitted
          /\ cancel_split(p) => split_temp'[p].is_none
          /\ (run.page = "split" /\ run.planner = p /\ submitted' # submitted) =>
                 (confirm_split(p) /\ ~split_temp[p].is_none)
          /\ (run'.page = "split" /\ run'.planner = p /\ ~run'.rerun
              /\ split_temp'[p].is_none) => edited_df' = NoFrame]_vars

\* A plan was cancelled by a planner who had confirmed one before.
C5_Witness ==
    \E p \in Planners :
       /\ run.page = "split" /\ run.planner = p /\ run.rerun
       /\ split_temp[p].is_none
       /\ ~show_success[p]
       /\ Len(edited_df.rows) = 1
       /\ Len(submitted[p].rows) = 1

Count(seq, x) == Cardinality({i \in 1..Len(seq) : seq[i] = x})
Untag(row) == [c \in Range(REQUIRED_COLUMNS) |-> row[c]]
AllTablesEmpty == \A p \in Planners : file[p].rows = <<>> /\ submitted[p].rows = <<>>

\* C6: the summary table holds exactly the rows of every planner's file
\* table and submitted table, each once, tagged with that planner; when
\* every table is empty there is no summary table and no export.
C6_SummaryIsAllRowsTagged ==
    (run.page = "summary") =>
       LET T == out.total_df.rows
       IN /\ AllTablesEmpty =>
                (out.total_df = NoFrame /\ out.export_df = NoFrame
                 /\ out.msg = "no_data")
          /\ \A i \in 1..Len(T) : T[i].planner_tag \in Planners
          /\ \A p \in Planners :
                \A x \in Range(file[p].rows) \cup Range(submitted[p].rows)
                         \cup {Untag(T[i]) : i \in 1..Len(T)} :
                   Cardinality({i \in 1..Len(T) :
                                   T[i].planner_tag = p /\ Untag(T[i]) = x})
                   = Count(file[p].rows, x) + Count(submitted[p].rows, x)

\* The summary shows an uploaded row of one planner and a submitted row
\* of the other.
C6_Witness ==
    /\ run.page = "summary"
    /\ Len(out.total_df.rows) = 2
    /\ Len(file[PILL_OPTIONS[2]].rows) = 1
    /\ Len(submitted[PILL_OPTIONS[1]].rows) = 1

\* The table is the template made of these input rows.
IsTemplateOf(t, rows) ==
    /\ t.columns = EXPORT_TEMPLATE_COLUMNS
    /\ Len(t.rows) = Len(rows)
    /\ \A i \in 1..Len(rows) :
          /\ DOMAIN t.rows[i] = Range(EXPORT_TEMPLATE_COLUMNS)
          /\ t.rows[i]["CAD"] = rows[i].CAD
          /\ t.rows[i]["Qty"] = rows[i].qty
          /\ t.rows[i]["client"] = rows[i].client
          /\ t.rows[i]["Request Date"] = strftime(rows[i].date)
          /\ t.rows[i]["Sourcing"] = ""
          /\ t.rows[i]["IO"] = ""

\* The export of the summary page has been made.
SummaryExported == app = "app3" /\ run.page = "summary" /\ out.msg = "export"
\* The export of the planner's history has been made.
HistoryExported == run.page = "split" /\ ~run.rerun /\ out.export_df # NoFrame

\* C7: convert_to_template returns the seven template columns in their
\* order; one row per input row, in order, with CAD, Qty, client and
\* Request Date of that row and Sourcing and IO blank; no rows for an
\* empty input.
C7_TemplateKeepsRows ==
    /\ convert_to_template(DataFrame(REQUIRED_COLUMNS, <<>>))
          = DataFrame(EXPORT_TEMPLATE_COLUMNS, <<>>)
    /\ SummaryExported => IsTemplateOf(out.export_df, out.total_df.rows)
    /\ HistoryExported => IsTemplateOf(out.export_df, submitted[run.planner].rows)

\* The summary of two rows has been exported.
C7_Witness ==
    /\ SummaryExported
    /\ Len(out.total_df.rows) = 2
    /\ Len(out.export_df.rows) = 2
    /\ out.export_df.rows[1]["Qty"] # out.export_df.rows[2]["Qty"]

\* C8: a run under one planner leaves every other planner's file table,
\* pending batch, pending plan, submitted table and success flag as they
\* were.
C8_OtherPlannersUntouched ==
    [][\A p \in Planners :
          (run'.page \in {"entry", "split"} /\ run'.planner = p) =>
             \A q \in Planners \ {p} :
                /\ file'[q] = file[q]
                /\ batch'[q] = batch[q]
                /\ split_temp'[q] = split_temp[q]
                /\ submitted'[q] = submitted[q]
                /\ show_success'[q] = show_success[q]]_vars

\* The second planner has just confirmed a plan while the first one holds
\* a pending entry.
C8_Witness ==
    /\ run.page = "split" /\ run.planner = PILL_OPTIONS[2]
    /\ show_success[PILL_OPTIONS[2]]
    /\ Len(submitted[PILL_OPTIONS[2]].rows) = 1
    /\ Len(batch[PILL_OPTIONS[1]].entries) = 1
    /\ batch[PILL_OPTIONS[1]].selected_client # ""

\* C9: every row of a non-empty export has its Creation Date filled with
\* the day of the export.
C9_CreationDateFilled ==
    (SummaryExported \/ HistoryExported) =>
       \A i \in 1..Len(out.export_df.rows) :
          out.export_df.rows[i]["Creation Date"] = strftime(Today)

\* C10: confirm with a missing arrival date in some row is refused with
\* an error and leaves the submitted table, the pending plan and the
\* success flag as they were; otherwise it appends the rows as edited to
\* the end of the submitted table, clears the plan and sets the flag.
C10_ConfirmAppendsEditedRows ==
    [][\A p \in Planners :
          confirm_split(p) =>
             IF \E i \in 1..Len(edited_df.rows) :
                   edited_df.rows[i].date \in {NoDate, NaT}
             THEN /\ submitted' = submitted
                  /\ split_temp' = split_temp
                  /\ show_success' = show_success
                  /\ out'.msg = "invalid_date"
             ELSE /\ submitted'[p].rows = submitted[p].rows \o edited_df.rows
                  /\ split_temp'[p].is_none
                  /\ show_success'[p]]_vars

\* A plan generated as one row of quantity 1 was confirmed with the
\* quantity edited to 2.
C10_Witness ==
    \E p \in Planners :
       /\ run.page = "split" /\ run.planner = p /\ run.rerun
       /\ show_success[p]
       /\ split_total = 1
       /\ split_temp[p].is_none
       /\ Len(submitted[p].rows) = 1
       /\ submitted[p].rows[1].qty = 2

\* The total quantity a stored plan was generated from: split_list makes
\* rows whose quantities add up to it, and the stored plan is never edited
\* (the editor returns a copy).
RECURSIVE QtySum(_)
QtySum(rows) == IF rows = <<>> THEN 0 ELSE Head(rows).qty + QtySum(Tail(rows))

\* C11: whenever a pending plan is on screen, the "original total quantity"
\* of the caption is the total quantity the plan was generated from.
C11_CaptionShowsGeneratingTotal ==
    \A p \in Planners :
       PlanDisplayed(p) => OriginalTotalShown = QtySum(split_temp[p].df.rows)

\* C12: every row of every planner's submitted table has a client, a
\* non-blank CAD, a quantity that is present and >= 0 and an arrival date
\* that is present.
C12_SubmittedRowsValid ==
    \A p \in Planners :
       \A i \in 1..Len(submitted[p].rows) :
          LET row == submitted[p].rows[i]
          IN /\ row.client \notin {"", NoText}
             /\ row.CAD \notin {"", " ", NoText}
             /\ row.qty # NoneQty /\ row.qty >= 0
             /\ row.date \notin {NoDate, NaT, NaN}

\* a is a prefix of b, row for row.
IsPrefix(a, b) ==
    /\ Len(a) <= Len(b)
    /\ \A i \in 1..Len(a) : b[i] = a[i]

\* C13: in every step, whatever the operation, each planner's submitted
\* table after the step has the table before the step as a prefix: no
\* submitted row is removed, reordered or modified.
C13_SubmittedAppendOnly ==
    [][\A p \in Planners :
          /\ submitted'[p].columns = submitted[p].columns
          /\ IsPrefix(submitted[p].rows, submitted'[p].rows)]_vars

\* A row was appended behind a different row submitted earlier.
C13_Witness ==
    \E p \in Planners :
       /\ Len(submitted[p].rows) = 2
       /\ submitted[p].rows[1] # submitted[p].rows[2]

\* C14: a form submitted with a client, a non-blank CAD, total >= 1 and
\* size >= 1 stores a plan that is not empty, whose quantities are each
\* between 1 and size and add up to total, and whose rows all carry the
\* client, CAD and base date of the form.
C14_FreshPlanWellFormed ==
    [][(run.page = "split" /\ ~run.rerun) =>
          \A client \in ClientInputs \ {""}, cad \in SplitCads \ {"", " "},
             size \in Sizes, date \in DateInputs :
             LET p == run.planner
                 total == split_total'
             IN submit_form(p, client, cad, total, size, date) =>
                   LET rows == split_temp'[p].df.rows
                   IN /\ ~split_temp'[p].is_none
                      /\ Len(rows) >= 1
                      /\ QtySum(rows) = total
                      /\ \A i \in 1..Len(rows) :
                            /\ rows[i].qty >= 1 /\ rows[i].qty <= size
                            /\ rows[i].client = client
                            /\ rows[i].CAD = cad
                            /\ rows[i].date = date]_vars

\* A plan of two equal rows for total 2 has just been stored.
C14_Witness ==
    \E p \in Planners :
       /\ run.page = "split" /\ run.planner = p /\ run.rerun
       /\ split_total = 2
       /\ ~split_temp[p].is_none
       /\ Len(split_temp[p].df.rows) = 2
       /\ split_temp[p].df.rows[1].qty = 1
       /\ split_temp[p].df.rows[2] = split_temp[p].df.rows[1]
       /\ split_temp[p].df.rows[1].client = CLIENT_OPTIONS[1]

====
